---- MODULE Spec2Model ----
(***************************************************************************)
(* Accrual-and-settlement engine of src/main.py.                           *)
(*                                                                         *)
(* The three HTTP handlers (start_engine, get_metrics, stop_engine) run on *)
(* one asyncio event loop.  Each handler invocation is a request process   *)
(* with a program counter.  start_engine and stop_engine are one step up   *)
(* to their return; a get_metrics call is one step up to its settlement    *)
(* decision, one step per chain call of mint_tokens_to_user, and one step  *)
(* for the rest up to its return.                                          *)
(*                                                                         *)
(* Units.  Time is in whole seconds.  Money is exact: principals are in    *)
(* units of 100000 dollars, rates in units of 1/10000, and an amount x     *)
(* stands for 10 * x / SecondsPerYear dollars, so that                     *)
(* principal * rate_per_second * time_seconds needs no rounding.           *)
(* Wallet identifiers are sequences of one-character strings.              *)
(***************************************************************************)
EXTENDS Integers, Sequences, FiniteSets, TLC

(* ------------------------------ bounds --------------------------------- *)
MaxTime == 10
MaxTimeAll == 6
NumReqs == 2
MaxOps == 3
MaxSkew == 1
MaxPrincipal == 4
MaxElapsed == 24

(* ------------------------- program constants --------------------------- *)
SecondsPerYear == 365 * 24 * 3600
SETTLE_INTERVAL == 5
AI_BOOST_MULTIPLIER_X10 == 25
principal == 1
HOUR == 3600

\* apy and weight of the catalog, both in hundredths
STRATEGIES ==
  [ aave_lending       |-> [apy |-> 85,  weight |-> 15],
    compound_lending   |-> [apy |-> 78,  weight |-> 12],
    uniswap_v3_lp      |-> [apy |-> 245, weight |-> 18],
    curve_stable       |-> [apy |-> 125, weight |-> 10],
    yearn_vaults       |-> [apy |-> 198, weight |-> 15],
    convex_boosted     |-> [apy |-> 312, weight |-> 10],
    balancer_weighted  |-> [apy |-> 167, weight |-> 8],
    sushiswap_farms    |-> [apy |-> 289, weight |-> 5],
    mev_arbitrage      |-> [apy |-> 425, weight |-> 3],
    flashloan_arb      |-> [apy |-> 512, weight |-> 2],
    governance_rewards |-> [apy |-> 95,  weight |-> 1],
    staking_rewards    |-> [apy |-> 142, weight |-> 1] ]

RECURSIVE SumApyWeight(_)
SumApyWeight(names) ==
  IF names = {} THEN 0
  ELSE LET n == CHOOSE x \in names : TRUE
       IN STRATEGIES[n].apy * STRATEGIES[n].weight + SumApyWeight(names \ {n})

\* variant: the boost multiplier is left out
total_apy_Unboosted == SumApyWeight(DOMAIN STRATEGIES)

\* sum(apy * weight) * AI_BOOST_MULTIPLIER, in units of 1/10000
total_apy == (SumApyWeight(DOMAIN STRATEGIES) * AI_BOOST_MULTIPLIER_X10) \div 10

\* variant: the elapsed time divides instead of multiplying
calculate_yield_Divides(p, time_seconds) ==
  [earnings |-> (p * total_apy) \div (time_seconds + 1), total_apy |-> total_apy]

\* calculate_yield: the earnings are the numerator of
\* principal * (total_apy / SecondsPerYear) * time_seconds  in amount units
calculate_yield(p, time_seconds) ==
  [earnings |-> p * total_apy * time_seconds, total_apy |-> total_apy]

\* hourly_rate = (earnings / time_running) * 3600 if time_running > 0 else 0,
\* reported in cents: 10 * x / SecondsPerYear * 3600 * 100 = 100 * x / 876
hourly_rate_of(earnings, time_running) ==
  IF time_running > 0
  THEN ((earnings \div time_running) * 100) \div (SecondsPerYear \div 36000)
  ELSE 0

\* an amount in whole cents
Cents(x) == x \div (SecondsPerYear \div 1000)

\* arguments of calculate_yield
Principals == 0..MaxPrincipal
Elapsed == (0..MaxElapsed) \cup {HOUR}

(* --------------------------- wallet identifiers ------------------------ *)
LowerChar(c) ==
  CASE c = "A" -> "a"
    [] c = "B" -> "b"
    [] OTHER   -> c

\* variant: the identifier is used as sent
Lower_AsSent(s) == s

\* str.lower()
Lower(s) == [i \in DOMAIN s |-> LowerChar(s[i])]

RawWallets == { <<"a">>, <<"A">>, <<"b">> }
NoHeader   == << >>
Headers    == RawWallets \cup {NoHeader}
\* the dict keys the handlers can look up; "" is the key of a stop without walletAddress
Wallets    == { Lower(s) : s \in Headers }

\* The identifiers the clients of one run send: all of them, or the
\* spellings of one wallet only.
ClientSets == { RawWallets, { s \in RawWallets : Lower(s) = <<"a">> } }

Reqs == 1..NumReqs

(* ------------------------------- state --------------------------------- *)
VARIABLES
  now,            \* the wall clock, datetime.now().timestamp()
  w3,             \* module global: chain client configured
  admin_account,  \* module global: signing identity configured
  user_sessions,  \* module global dict: wallet -> session
  tx_count,       \* chain: mined transaction count of the signing identity
  pc,             \* position of each request
  req,            \* locals of each request, and its response once computed
  last_attempt,   \* history: current_time of the wallet's last call of mint_tokens_to_user, -1 if none
  after_stop,     \* history: the wallet's session was removed by stop and the wallet not started or read since
  ops,            \* history: number of requests dispatched so far
  clients,        \* environment: the wallet identifiers sent in this run
  settled,        \* history: the amounts of the confirmed settlements of the wallet's present session
  restarted,      \* history: the wallet's last operation was a start that replaced a session holding earnings
  calc            \* the last call of calculate_yield made on its own: arguments and result

vars == <<now, w3, admin_account, user_sessions, tx_count, pc, req, last_attempt, after_stop, ops, clients, settled, restarted, calc>>

NoCall == [principal |-> 0, time_seconds |-> 0, earnings |-> 0, total_apy |-> 0]

IdleReq ==
  [ op |-> "none", header |-> << >>, wallet |-> << >>, start_time |-> 0, current_time |-> 0,
    time_since_mint |-> 0, earnings |-> 0, before |-> 0,
    created |-> FALSE, fresh |-> FALSE, began |-> 0,
    prev_attempt |-> -1, nonce |-> -1, mint |-> "none",
    status |-> 0, totalProfit |-> 0, hourlyRate |-> 0, dailyProfit |-> 0, pendingRewards |-> 0 ]

\* variant: the two clock values stored in each other's field
NewSession_Swapped(t_start, t_mint) ==
  [start_time |-> t_mint, total_earned |-> 0, last_mint |-> t_start]

\* the session literal of lines 85-89 and 99-103
NewSession(t_start, t_mint) ==
  [start_time |-> t_start, total_earned |-> 0, last_mint |-> t_mint]

\* variant: an existing entry is kept
DictSet_IfAbsent(d, k, v) == [x \in (DOMAIN d) \cup {k} |-> IF x \in DOMAIN d THEN d[x] ELSE v]

\* d[k] = v on a dict
DictSet(d, k, v) == [x \in (DOMAIN d) \cup {k} |-> IF x = k THEN v ELSE d[x]]

\* variant: the whole dict is emptied
DictDel_Clear(d, k) == [x \in {} |-> d[x]]

\* variant: the key is left in place
DictDel_Keep(d, k) == d

\* del d[k]
DictDel(d, k) == [x \in (DOMAIN d) \ {k} |-> d[x]]

\* variant: the receipt wait is awaited cooperatively
Suspends_AtReceipt(p) == p = "mint_164"

\* Program counters at which a handler has handed the event loop back.
\* The handlers are `async def` and the only await (line 116) is on a
\* coroutine whose body (lines 133-173) makes synchronous web3 calls only,
\* so a handler never suspends between its first and its last statement.
Suspends(p) == FALSE

\* the event loop can dispatch a new request
LoopFree == \A r \in Reqs : pc[r] = "idle" \/ Suspends(pc[r])

\* a new request is given the first free slot
FreeSlot(r) == pc[r] = "idle" /\ \A q \in Reqs : q < r => pc[q] # "idle"

\* the slots a new request can be dispatched to
Slots == { r \in Reqs : LoopFree /\ FreeSlot(r) /\ ops < MaxOps }

\* a request is dispatched to slot r
Dispatch(r) ==
  /\ LoopFree
  /\ FreeSlot(r)
  /\ ops < MaxOps
  /\ ops' = ops + 1

\* The time a run is followed for: MaxTime seconds when one wallet is
\* served, MaxTimeAll seconds when all are.
Horizon == IF clients = RawWallets THEN MaxTimeAll ELSE MaxTime

\* The clock is non-decreasing.  Between the first and the last
\* datetime.now() call of one handler it advances by 0 .. MaxSkew in all,
\* within the horizon.
Skew(d) == d <= MaxSkew /\ now + d <= Horizon

Init ==
  /\ now = 0
  /\ w3 \in BOOLEAN
  /\ admin_account \in BOOLEAN
  /\ (~w3 => ~admin_account)
  /\ user_sessions = [x \in {} |-> NewSession(0, 0)]
  /\ tx_count = 0
  /\ pc = [r \in Reqs |-> "idle"]
  /\ req = [r \in Reqs |-> IdleReq]
  /\ last_attempt = [w \in Wallets |-> -1]
  /\ after_stop = [w \in Wallets |-> FALSE]
  /\ ops = 0
  /\ clients \in ClientSets
  /\ settled = [w \in Wallets |-> 0]
  /\ restarted = [w \in Wallets |-> FALSE]
  /\ calc = NoCall

(* ------------------------------- clock --------------------------------- *)
\* Time passes between requests.  Time that passes inside a handler is
\* either between two of its clock reads (the skews of the handler's
\* action) or not looked at by it (then it is taken after its return).
\* Time is counted from the dispatch of the first request, and once no
\* further request will be dispatched the clock is of no interest.
Tick ==
  /\ now < Horizon
  /\ \A r \in Reqs : pc[r] = "idle"
  /\ 0 < ops /\ ops < MaxOps
  /\ now' = now + 1
  /\ UNCHANGED <<w3, admin_account, user_sessions, tx_count, pc, req, last_attempt, after_stop, ops, clients, settled, restarted, calc>>

(* ------------------------- POST /api/engine/start ---------------------- *)
\* lines 84-90; d is the clock advance between line 86 and line 88
StartEngine(r, raw, d) ==
  /\ Skew(d)
  /\ Dispatch(r)
  /\ LET wallet == Lower(raw) IN
       /\ user_sessions' = DictSet(user_sessions, wallet, NewSession(now, now + d))
       /\ after_stop' = [after_stop EXCEPT ![wallet] = FALSE]
       /\ restarted' = [restarted EXCEPT ![wallet] =
                          wallet \in DOMAIN user_sessions /\ user_sessions[wallet].total_earned > 0]
       /\ settled' = [settled EXCEPT ![wallet] = 0]
       /\ req' = [req EXCEPT ![r] = [IdleReq EXCEPT !.op = "start", !.header = raw,
                                                    !.wallet = wallet, !.began = now,
                                                    !.status = 200]]
  /\ pc' = [pc EXCEPT ![r] = "return"]
  /\ now' = now + d
  /\ UNCHANGED <<w3, admin_account, tx_count, last_attempt, clients, calc>>

(* ------------------------- POST /api/engine/stop ----------------------- *)
\* lines 177-180; a body without walletAddress gives the key ""
StopEngine(r, raw) ==
  /\ Dispatch(r)
  /\ LET wallet == Lower(raw) IN
       /\ user_sessions' = IF wallet \in DOMAIN user_sessions
                           THEN DictDel(user_sessions, wallet)
                           ELSE user_sessions
       /\ after_stop' = [w \in Wallets |->
                           after_stop[w] \/ (w = wallet /\ w \in DOMAIN user_sessions)]
       /\ restarted' = [restarted EXCEPT ![wallet] = FALSE]
       /\ settled' = [settled EXCEPT ![wallet] = 0]
       /\ req' = [req EXCEPT ![r] = [IdleReq EXCEPT !.op = "stop", !.header = raw,
                                                    !.wallet = wallet, !.began = now,
                                                    !.status = 200]]
  /\ pc' = [pc EXCEPT ![r] = "return"]
  /\ UNCHANGED <<now, w3, admin_account, tx_count, last_attempt, clients, calc>>

(* ------------------------- GET /api/engine/metrics --------------------- *)
\* variant: the header test is missing
Rejects_Never(header) == FALSE

\* line 94: `not x_wallet_address` holds for a missing and for an empty header
Rejects(header) == header = NoHeader

\* lines 94-95
MetricsReject(r, header) ==
  /\ Dispatch(r)
  /\ Rejects(header)
  /\ req' = [req EXCEPT ![r] = [IdleReq EXCEPT !.op = "metrics", !.began = now, !.status = 400]]
  /\ pc' = [pc EXCEPT ![r] = "return"]
  /\ UNCHANGED <<now, w3, admin_account, user_sessions, tx_count, last_attempt, after_stop, clients, settled, restarted, calc>>

\* variant: the signing identity is not asked for
SettlementDue_AnyAccount(time_since_mint) ==
  time_since_mint >= SETTLE_INTERVAL /\ w3

\* variant: the interval test is one second short
SettlementDue_OffByOne(time_since_mint) ==
  time_since_mint >= SETTLE_INTERVAL - 1 /\ w3 /\ admin_account

\* line 114: the condition under which mint_tokens_to_user is called
SettlementDue(time_since_mint) ==
  time_since_mint >= SETTLE_INTERVAL /\ w3 /\ admin_account

\* variant: a failed settlement is turned into an error response
Response_SurfacesFailure(rq, session) ==
  [rq EXCEPT !.status = IF rq.mint \in {"error", "reverted"} THEN 500 ELSE 200,
             !.totalProfit = session.total_earned]

\* lines 122-130 (amounts as stored, rates in cents)
Response(rq, session) ==
  LET hourly_rate == hourly_rate_of(rq.earnings, rq.current_time - rq.start_time)
  IN [rq EXCEPT !.status = 200,
                !.totalProfit = session.total_earned,
                !.hourlyRate = hourly_rate,
                !.dailyProfit = hourly_rate * 24,
                !.pendingRewards = session.total_earned \div 10]

\* lines 97-114, and lines 122-130 when the condition of line 114 is false.
\* d1 and d2 are the clock advances between the datetime.now() calls of
\* lines 100, 102 and 106; without a new session line 106 is the only call.
MetricsRead(r, header, d1, d2) ==
  /\ ~Rejects(header)
  /\ Skew(d1 + d2)
  /\ (Lower(header) \in DOMAIN user_sessions => d1 = 0 /\ d2 = 0)
  /\ Dispatch(r)
  /\ LET wallet          == Lower(header)
         absent          == wallet \notin DOMAIN user_sessions
         session         == IF absent THEN NewSession(now, now + d1) ELSE user_sessions[wallet]
         current_time    == now + d1 + d2
         time_running    == current_time - session.start_time
         time_since_mint == current_time - session.last_mint
         earnings        == calculate_yield(principal, time_running).earnings
         accrued         == [session EXCEPT !.total_earned = session.total_earned + earnings]
         due             == SettlementDue(time_since_mint)
         locals          == [IdleReq EXCEPT !.op = "metrics", !.header = header,
                                            !.wallet = wallet,
                                            !.began = now,
                                            !.created = absent,
                                            !.fresh = after_stop[wallet],
                                            !.start_time = session.start_time,
                                            !.current_time = current_time,
                                            !.time_since_mint = time_since_mint,
                                            !.earnings = earnings,
                                            !.before = session.total_earned,
                                            !.prev_attempt = IF due THEN last_attempt[wallet] ELSE -1]
     IN /\ user_sessions' = DictSet(user_sessions, wallet, accrued)
        /\ after_stop' = [after_stop EXCEPT ![wallet] = FALSE]
        /\ restarted' = [restarted EXCEPT ![wallet] = FALSE]
        /\ settled' = IF absent THEN [settled EXCEPT ![wallet] = 0] ELSE settled
        /\ now' = current_time
        /\ last_attempt' = IF due THEN [last_attempt EXCEPT ![wallet] = current_time]
                           ELSE last_attempt
        /\ req' = [req EXCEPT ![r] = IF due THEN locals ELSE Response(locals, accrued)]
        /\ pc' = [pc EXCEPT ![r] = IF due THEN "mint_133" ELSE "return"]
  /\ UNCHANGED <<w3, admin_account, tx_count, clients, calc>>

(* ------------------------- mint_tokens_to_user ------------------------- *)
\* the argument session["total_earned"] of the call at line 116
mint_argument(rq) == rq.before + rq.earnings

\* int(amount_usd * 10**18): one amount unit is far above 10**-18 dollars
token_amount(amount_usd) == amount_usd

\* Whether an outcome of mint_tokens_to_user leaves it as an exception.
\* Lines 136-173: every failure is caught at line 171 and None is returned;
\* a receipt with status 0 is not an exception at all (lines 166-170).
MintRaises(outcome) == FALSE

\* lines 133-160: guards, gas price, nonce, build_transaction
MintBuild(r) ==
  /\ pc[r] = "mint_133"
  /\ IF ~w3 \/ ~admin_account \/ token_amount(mint_argument(req[r])) <= 0
     THEN /\ req' = [req EXCEPT ![r].mint = "skipped"]
          /\ pc' = [pc EXCEPT ![r] = "m_117"]
     ELSE \E ok \in BOOLEAN :
            IF ok
            THEN /\ req' = [req EXCEPT ![r].nonce = tx_count]
                 /\ pc' = [pc EXCEPT ![r] = "mint_162"]
            ELSE /\ req' = [req EXCEPT ![r].mint = "error"]
                 /\ pc' = [pc EXCEPT ![r] = "m_117"]
  /\ UNCHANGED <<now, w3, admin_account, user_sessions, tx_count, last_attempt, after_stop, ops, clients, settled, restarted, calc>>

\* lines 162-163: sign_transaction, send_raw_transaction
MintSend(r) ==
  /\ pc[r] = "mint_162"
  /\ \E ok \in BOOLEAN :
       IF ok
       THEN /\ req' = req
            /\ pc' = [pc EXCEPT ![r] = "mint_164"]
       ELSE /\ req' = [req EXCEPT ![r].mint = "error"]
            /\ pc' = [pc EXCEPT ![r] = "m_117"]
  /\ UNCHANGED <<now, w3, admin_account, user_sessions, tx_count, last_attempt, after_stop, ops, clients, settled, restarted, calc>>

\* lines 164-170: wait_for_transaction_receipt; status 1, status 0, or
\* TimeExhausted / transport error
MintReceipt(r) ==
  /\ pc[r] = "mint_164"
  /\ \E outcome \in {"confirmed", "reverted", "error"} :
       /\ req' = [req EXCEPT ![r].mint = outcome]
       /\ tx_count' = IF outcome = "error" THEN tx_count ELSE tx_count + 1
  /\ pc' = [pc EXCEPT ![r] = "m_117"]
  /\ UNCHANGED <<now, w3, admin_account, user_sessions, last_attempt, after_stop, ops, clients, settled, restarted, calc>>

(* ------------------- get_metrics after the settlement ------------------ *)
\* variant: line 118 missing
SettledSession_KeepsEarnings(session, current_time) ==
  [session EXCEPT !.last_mint = current_time]

\* lines 117-118
SettledSession(session, current_time) ==
  [session EXCEPT !.last_mint = current_time, !.total_earned = 0]

\* The dict object bound to `session` at line 105.  It is the stored one
\* unless the key was removed since; the object then lives on with the
\* values this handler gave it.
HeldSession(rq) ==
  IF rq.wallet \in DOMAIN user_sessions
  THEN user_sessions[rq.wallet]
  ELSE [start_time   |-> rq.start_time,
        total_earned |-> rq.before + rq.earnings,
        last_mint    |-> rq.current_time - rq.time_since_mint]

\* lines 115-120 after the await, then lines 122-130
MetricsFinish(r) ==
  /\ pc[r] = "m_117"
  /\ LET wallet  == req[r].wallet
         session == IF MintRaises(req[r].mint)
                    THEN HeldSession(req[r])
                    ELSE SettledSession(HeldSession(req[r]), req[r].current_time)
     IN /\ user_sessions' = IF wallet \in DOMAIN user_sessions
                            THEN [user_sessions EXCEPT ![wallet] = session]
                            ELSE user_sessions
        /\ req' = [req EXCEPT ![r] = Response(req[r], session)]
        /\ settled' = IF req[r].mint = "confirmed"
                      THEN [settled EXCEPT ![wallet] = @ + token_amount(mint_argument(req[r]))]
                      ELSE settled
  /\ pc' = [pc EXCEPT ![r] = "return"]
  /\ UNCHANGED <<now, w3, admin_account, tx_count, last_attempt, after_stop, ops, clients, restarted, calc>>

\* the handler returns (lines 90, 123, 180) or raises HTTPException (line 95)
\* and the response is sent
Return(r) ==
  /\ pc[r] = "return"
  /\ pc' = [pc EXCEPT ![r] = "idle"]
  /\ req' = [req EXCEPT ![r] = IdleReq]
  /\ UNCHANGED <<now, w3, admin_account, user_sessions, tx_count, last_attempt, after_stop, ops, clients, settled, restarted, calc>>

Next ==
  \/ Tick
  \/ \E r \in Slots, raw \in clients, d \in 0..MaxSkew : StartEngine(r, raw, d)
  \/ \E r \in Slots, raw \in clients \cup {NoHeader} : StopEngine(r, raw)
  \/ \E r \in Slots, header \in clients \cup {NoHeader} : MetricsReject(r, header)
  \/ \E r \in Slots, header \in clients \cup {NoHeader}, d1 \in 0..MaxSkew, d2 \in 0..MaxSkew :
       MetricsRead(r, header, d1, d2)
  \/ \E r \in Reqs : MintBuild(r)
  \/ \E r \in Reqs : MintSend(r)
  \/ \E r \in Reqs : MintReceipt(r)
  \/ \E r \in Reqs : MetricsFinish(r)
  \/ \E r \in Reqs : Return(r)

Spec == Init /\ [][Next]_vars

(* ------------------------- calculate_yield on its own ------------------ *)
\* lines 61-65 called with arguments p and t
Calculate(p, t) ==
  /\ calc' = [principal |-> p, time_seconds |-> t,
              earnings |-> calculate_yield(p, t).earnings,
              total_apy |-> calculate_yield(p, t).total_apy]
  /\ UNCHANGED <<now, w3, admin_account, user_sessions, tx_count, pc, req, last_attempt, after_stop, ops, clients, settled, restarted>>

NextYield == \E p \in Principals, t \in Elapsed : Calculate(p, t)

SpecYield == Init /\ [][NextYield]_vars

TypeOK ==
  /\ now \in 0..Horizon
  /\ clients \in ClientSets
  /\ DOMAIN user_sessions \subseteq Wallets
  /\ \A r \in Reqs : pc[r] \in {"idle", "mint_133", "mint_162", "mint_164", "m_117", "return"}

(* ======================================================================= *)
(*                               Properties                                *)
(* ======================================================================= *)
MetricsDone(r) == pc[r] = "return" /\ req[r].op = "metrics" /\ req[r].status = 200

InSettlement(r) == pc[r] \in {"mint_133", "mint_162", "mint_164"}

\* the settlement called by this read failed: an exception inside
\* mint_tokens_to_user, or a receipt with status 0
SettlementFailed(r) == req[r].mint \in {"error", "reverted"}

\* C1: if the settlement attempted during a metrics read fails, the wallet's
\* unsettledEarnings after the read equals its value before the read plus
\* that read's own accrued increment (it is not reset to 0).
C1_FailedSettlementKeepsEarnings ==
  \A r \in Reqs :
    (MetricsDone(r) /\ SettlementFailed(r))
      => user_sessions[req[r].wallet].total_earned = req[r].before + req[r].earnings

\* C2: a metrics read at least the settlement interval after last_mint, with
\* positive unsettled earnings and a ready client whose settlement succeeds,
\* sets total_earned to 0, last_mint to the read's current time, and
\* returns totalProfit = 0.
C2_SuccessfulSettlementResets ==
  \A r \in Reqs :
    (/\ MetricsDone(r)
     /\ req[r].time_since_mint >= SETTLE_INTERVAL
     /\ req[r].before + req[r].earnings > 0
     /\ w3 /\ admin_account
     /\ req[r].mint = "confirmed")
      => /\ user_sessions[req[r].wallet].total_earned = 0
         /\ user_sessions[req[r].wallet].last_mint = req[r].current_time
         /\ req[r].totalProfit = 0

C2_Witness ==
  \E r \in Reqs : /\ MetricsDone(r)
                  /\ req[r].mint = "confirmed"
                  /\ req[r].before + req[r].earnings > 0
                  /\ req[r].time_since_mint >= SETTLE_INTERVAL

\* a step of get_metrics that completes a confirmed settlement for wallet w
SettledStep(w) ==
  \E r \in Reqs : /\ pc[r] = "m_117" /\ pc'[r] = "return"
                  /\ req[r].wallet = w
                  /\ req[r].mint = "confirmed"

\* a step of start_engine
StartStep == \E r \in Reqs, raw \in RawWallets, d \in 0..MaxSkew : StartEngine(r, raw, d)

\* C3: the last_mint of a session changes only on a step in which a
\* settlement succeeded (a failed attempt leaves it unchanged).
C3_LastMintOnlyOnSuccess ==
  [][\A w \in Wallets :
       (/\ w \in DOMAIN user_sessions
        /\ w \in DOMAIN user_sessions'
        /\ ~StartStep
        /\ user_sessions'[w].last_mint # user_sessions[w].last_mint)
         => SettledStep(w)]_vars

\* C4: under any interleaving of metrics reads for one wallet, total_earned
\* is never negative and decreases only on a step that settles it.
C4_NoLostUpdate ==
  [][\A w \in Wallets :
       (/\ w \in DOMAIN user_sessions
        /\ w \in DOMAIN user_sessions'
        /\ ~StartStep)
         => /\ user_sessions'[w].total_earned >= 0
            /\ (user_sessions'[w].total_earned < user_sessions[w].total_earned
                  => SettledStep(w))]_vars

\* C5: at most one build-sign-broadcast-await-receipt sequence is in flight
\* at any time across all wallets, and no two in-flight attempts hold the
\* same nonce.
C5_OneSettlementInFlight ==
  \A r1, r2 \in Reqs :
    (r1 # r2 /\ InSettlement(r1)) => ~InSettlement(r2)

C5_Witness ==
  \E r \in Reqs : pc[r] = "mint_164" /\ req[r].nonce = tx_count

\* C6: while a settlement for one wallet waits for its receipt, a metrics
\* read for a different wallet can be dispatched.
C6_OtherWalletNotBlocked ==
  \A r \in Reqs :
    (pc[r] = "mint_164" /\ ops < MaxOps)
      => \A h \in clients :
           Lower(h) # req[r].wallet => ENABLED (\E q \in Reqs : MetricsRead(q, h, 0, 0))

\* C7: every stored session has total_earned >= 0, start_time <= last_mint
\* and last_mint <= the current time.
C7_SessionInvariant ==
  \A w \in DOMAIN user_sessions :
    /\ user_sessions[w].total_earned >= 0
    /\ user_sessions[w].start_time <= user_sessions[w].last_mint
    /\ user_sessions[w].last_mint <= now

C7_Witness ==
  \E w \in DOMAIN user_sessions :
    /\ user_sessions[w].start_time < user_sessions[w].last_mint
    /\ user_sessions[w].last_mint < now
    /\ user_sessions[w].total_earned > 0
    /\ last_attempt[w] >= 0

C9_FirstReadIsZero ==
  \A r \in Reqs :
    (req[r].op = "metrics" /\ req[r].created)
      => /\ ~InSettlement(r)
         /\ MetricsDone(r) => /\ req[r].earnings = 0
                              /\ req[r].hourlyRate = 0
                              /\ req[r].dailyProfit = 0
                              /\ req[r].mint = "none"

\* C10: after stop removed a wallet's session, the next metrics read for the
\* wallet works on a new session: it takes the creation path, start_time and
\* last_mint are clock values read in that call, and total_earned starts at 0.
C10_FreshSessionAfterStop ==
  \A r \in Reqs :
    (req[r].op = "metrics" /\ req[r].fresh)
      => /\ req[r].created
         /\ req[r].start_time >= req[r].began
         /\ req[r].current_time - req[r].time_since_mint >= req[r].began
         /\ req[r].before = 0
         /\ req[r].earnings =
              calculate_yield(principal, req[r].current_time - req[r].start_time).earnings
         /\ user_sessions[req[r].wallet].start_time = req[r].start_time
         /\ user_sessions[req[r].wallet].last_mint >= req[r].began
         /\ user_sessions[req[r].wallet].total_earned \in {0, req[r].earnings}

C10_Witness ==
  \E r \in Reqs : MetricsDone(r) /\ req[r].fresh /\ req[r].began > 0

\* C11: a settlement failure is never surfaced to the caller: every metrics
\* read that carries a wallet header and has come to its return statement
\* returns a normal result (status 200), whether the settlement it called
\* was confirmed, reverted, raised inside mint_tokens_to_user, or was not
\* called at all.
C11_FailureNotSurfaced ==
  \A r \in Reqs :
    (pc[r] = "return" /\ req[r].op = "metrics" /\ req[r].wallet # NoHeader)
      => /\ req[r].status = 200
         /\ req[r].mint \in {"none", "confirmed", "reverted", "error", "skipped"}

C11_Witness ==
  \E r \in Reqs : MetricsDone(r) /\ req[r].mint = "reverted" /\ req[r].wallet # NoHeader

\* C12: a metrics read whose X-Wallet-Address header is missing or empty
\* ends with status 400 at once, and its step leaves the session store, the
\* chain and the record of settlement attempts unchanged.
C12_MissingHeaderRejected ==
  [][\A r \in Reqs :
       (/\ pc[r] = "idle" /\ pc'[r] # "idle"
        /\ req'[r].op = "metrics"
        /\ req'[r].header = NoHeader)
         => /\ pc'[r] = "return"
            /\ req'[r].status = 400
            /\ user_sessions' = user_sessions
            /\ tx_count' = tx_count
            /\ last_attempt' = last_attempt]_vars

C12_Witness ==
  \E r \in Reqs : /\ pc[r] = "return" /\ req[r].op = "metrics"
                  /\ req[r].header = NoHeader /\ req[r].status = 400
                  /\ \E w \in DOMAIN user_sessions : user_sessions[w].total_earned > 0

\* the lowercase spelling of an identifier
CaseFold(s) == [i \in DOMAIN s |-> LowerChar(s[i])]

\* request r is dispatched in this step as operation o
Dispatched(r, o) == pc[r] = "idle" /\ pc'[r] # "idle" /\ req'[r].op = o

\* C13: sessions are keyed by the lowercase form of the wallet identifier:
\* every key of the store is lowercase, so no two keys differ only in letter
\* case, and start, metrics and stop sent with any spelling of an identifier
\* create, read and remove the one session under its lowercase form.
C13_LowercaseKeys ==
  [][/\ \A k \in DOMAIN user_sessions' : CaseFold(k) = k
     /\ \A k1, k2 \in DOMAIN user_sessions' : CaseFold(k1) = CaseFold(k2) => k1 = k2
     /\ \A r \in Reqs :
          /\ Dispatched(r, "start")
               => DOMAIN user_sessions' = DOMAIN user_sessions \cup {CaseFold(req'[r].header)}
          /\ Dispatched(r, "stop")
               => DOMAIN user_sessions' = DOMAIN user_sessions \ {CaseFold(req'[r].header)}
          /\ (Dispatched(r, "metrics") /\ req'[r].header # NoHeader)
               => /\ DOMAIN user_sessions' = DOMAIN user_sessions \cup {CaseFold(req'[r].header)}
                  /\ user_sessions'[CaseFold(req'[r].header)].start_time = req'[r].start_time]_vars

\* a read sent with an upper-case spelling found the session that exists
\* under the lower-case key, next to a session of another wallet
C13_Witness ==
  \E r \in Reqs : /\ MetricsDone(r)
                  /\ req[r].header = <<"A">>
                  /\ ~req[r].created
                  /\ req[r].earnings > 0
                  /\ DOMAIN user_sessions = { <<"a">>, <<"b">> }

\* C14: the amount computed by calculate_yield does not decrease when the
\* elapsed time or the principal (or both) does not decrease, it is never
\* negative, and it is 0 when the elapsed time is 0.
C14_YieldMonotone ==
  [][/\ (calc'.principal >= calc.principal /\ calc'.time_seconds >= calc.time_seconds)
          => calc'.earnings >= calc.earnings
     /\ calc'.earnings >= 0
     /\ calc'.time_seconds = 0 => calc'.earnings = 0]_vars

C14_Witness ==
  calc.principal = MaxPrincipal /\ calc.time_seconds = MaxElapsed /\ calc.earnings > 0

\* the call of the example: 100000 dollars over one hour
ExampleCall == calc.principal = principal /\ calc.time_seconds = HOUR

\* C15 (as stated): the blended rate is 1.9975 x 2.5 = 4.99375 and 100000
\* dollars earn about 57.0 in 3600 seconds.
C15_Rate499 ==
  ExampleCall => /\ 10 * calc.total_apy = 499375
                 /\ Cents(calc.earnings) \in 5695..5705

\* C15 (amended): the blended rate of the shipped catalog is
\* 1.9278 x 2.5 = 4.8195 and 100000 dollars earn about 55.0 in 3600 seconds.
C15_Rate482 ==
  ExampleCall => /\ SumApyWeight(DOMAIN STRATEGIES) = 19278
                 /\ calc.total_apy = 48195
                 /\ Cents(calc.earnings) \in 5495..5505

C15_Witness == ExampleCall /\ calc.earnings > 0

\* the three conditions of a settlement, as they stand at a read
AllThree(rq) ==
  /\ rq.time_since_mint >= SETTLE_INTERVAL
  /\ w3 /\ admin_account
  /\ rq.before + rq.earnings > 0

\* C16: a metrics read calls the settlement, and a transaction is built or
\* broadcast, only if at that read the time since last_mint is at least the
\* settlement interval, client and signing identity are configured, and
\* total_earned is positive; a read at which one of them is false returns
\* with total_earned = before + earnings and last_mint as it was.
C16_SettlementOnlyWhenDue ==
  \A r \in Reqs :
    (req[r].op = "metrics" /\ req[r].header # NoHeader)
      => /\ (pc[r] \in {"mint_133", "mint_162", "mint_164", "m_117"} \/ req[r].mint # "none")
              => AllThree(req[r])
         /\ (pc[r] = "return" /\ ~AllThree(req[r]))
              => /\ req[r].nonce = -1
                 /\ user_sessions[req[r].wallet].total_earned = req[r].before + req[r].earnings
                 /\ user_sessions[req[r].wallet].last_mint = req[r].current_time - req[r].time_since_mint
                 /\ req[r].totalProfit = req[r].before + req[r].earnings

\* a read long after last_mint with earnings, but without signing identity
C16_Witness ==
  \E r \in Reqs : /\ MetricsDone(r)
                  /\ req[r].time_since_mint >= SETTLE_INTERVAL
                  /\ req[r].before > 0
                  /\ w3 /\ ~admin_account

\* C17: a start for a wallet leaves the wallet with a session whose
\* total_earned is 0 and whose start_time and last_mint are clock values of
\* that call, whether or not a session existed; earnings of a replaced
\* session are dropped and the step makes no settlement attempt.
C17_StartResets ==
  [][\A r \in Reqs :
       Dispatched(r, "start")
         => /\ CaseFold(req'[r].header) \in DOMAIN user_sessions'
            /\ user_sessions'[CaseFold(req'[r].header)].total_earned = 0
            /\ now <= user_sessions'[CaseFold(req'[r].header)].start_time
            /\ user_sessions'[CaseFold(req'[r].header)].start_time
                 <= user_sessions'[CaseFold(req'[r].header)].last_mint
            /\ user_sessions'[CaseFold(req'[r].header)].last_mint <= now'
            /\ tx_count' = tx_count
            /\ last_attempt' = last_attempt
            /\ pc'[r] = "return"]_vars

\* a start has replaced a session that held earnings, some time after the
\* session began
C17_Witness ==
  \E w \in DOMAIN user_sessions :
    /\ restarted[w]
    /\ user_sessions[w].total_earned = 0
    /\ user_sessions[w].start_time > 0

\* C18: no interval of elapsed time is credited more than once: for every
\* stored session, the amounts settled so far plus total_earned never exceed
\* calculate_yield(principal, now - start_time).
C18_NoDoubleCredit ==
  \A w \in DOMAIN user_sessions :
    settled[w] + user_sessions[w].total_earned
      <= calculate_yield(principal, now - user_sessions[w].start_time).earnings

\* the session of wallet w is untouched by the step: still present or still
\* absent, with the same start_time, total_earned and last_mint
Untouched(w) ==
  /\ (w \in DOMAIN user_sessions') = (w \in DOMAIN user_sessions)
  /\ w \in DOMAIN user_sessions => user_sessions'[w] = user_sessions[w]

\* C19: every step of a start, metrics or stop operation for one wallet
\* leaves the session of every other wallet (other after lowercasing)
\* untouched: a step that touches the session of w is no step of an
\* operation for another wallet.
C19_OtherSessionsUntouched ==
  [][\A w \in Wallets :
       ~Untouched(w)
         => \A r \in Reqs :
              /\ (pc[r] = "idle" /\ pc'[r] # "idle") => CaseFold(req'[r].header) = w
              /\ (pc[r] # "idle" /\ pc'[r] # pc[r]) => CaseFold(req[r].header) = w]_vars

\* a read for one wallet has been settled while another wallet has a
\* session that holds earnings
C19_Witness ==
  \E r \in Reqs :
    /\ MetricsDone(r)
    /\ req[r].mint = "confirmed"
    /\ \E w \in DOMAIN user_sessions :
         w # req[r].wallet /\ user_sessions[w].total_earned > 0

====
